---- MODULE Spec2Model ----
(***************************************************************************)
(* Arithmetic in F(5^2) = F_5[t]/(t^2 + 2), the group law of the curve     *)
(* y^2 = x^3 + x + 1 over it, and the two searches of src/main.rs (the     *)
(* full r-torsion points and the points of G2).                            *)
(*                                                                         *)
(* Values.  An F5x2 is a record [a, b].  An Option<F5x2> is a sequence:    *)
(* <<>> is None and <<v>> is Some(v).  A function that can panic returns   *)
(* a sequence too: <<>> when the call panics (the process ends there) and  *)
(* <<v>> when it returns v.                                                *)
(***************************************************************************)
EXTENDS Integers, Sequences, FiniteSets

VARIABLES
    mode,            \* which entry point this run exercises
    pc,              \* position inside the running function
    fx, fy,          \* F5x2 operands
    fres,            \* result of the last F5x2 operation (<<>>: it panicked)
    P, Q,            \* Point operands
    n,               \* scalar of point_mul
    r,               \* r of find_full_r_torsion_points
    k, result, base, \* locals of point_mul
    out,             \* result of the last Point operation (<<>>: it panicked)
    xi, yi,          \* positions of the two loops over field_elements
    torsion_points,  \* Vec built by find_full_r_torsion_points
    g2_points,       \* Vec built by find_g2_points
    panicked         \* the process ended in panic!

vars == <<mode, pc, fx, fy, fres, P, Q, n, r, k, result, base, out, xi, yi,
          torsion_points, g2_points, panicked>>

-----------------------------------------------------------------------------
(* Program constants *)

Prime == 5
U8Max == 255
TorsionR == 3
G2Scalar == 5

\* Largest scalar of a point_mul among the operations applied in any order.
MaxScalar == 30

-----------------------------------------------------------------------------
(* impl F5x2 *)

new(a, b) == [a |-> a % 5, b |-> b % 5]

add(self, other) == new((self.a + other.a) % 5, (self.b + other.b) % 5)

sub(self, other) == new((self.a + 5 - other.a) % 5, (self.b + 5 - other.b) % 5)

mul(self, other) ==
    LET a == self.a  b == self.b  c == other.a  d == other.b
        ac == (a * c) % 5
        bd == (b * d) % 5
        ad_plus_bc == (a * d + b * c) % 5
        new_a == (ac + 3 * bd) % 5
        new_b == ad_plus_bc % 5
    IN  new(new_a, new_b)

\* A mod_inverse that gives 0 back instead of panicking.
mod_inverse_silent(x, p) ==
    IF \E i \in 1..(p - 1) : (x * i) % p = 1
    THEN <<CHOOSE i \in 1..(p - 1) :
             /\ (x * i) % p = 1
             /\ \A j \in 1..(i - 1) : (x * j) % p # 1>>
    ELSE <<0>>

\* The first i of 1..p-1 with x*i % p = 1; <<>> is the panic! after the loop.
mod_inverse(x, p) ==
    IF \E i \in 1..(p - 1) : (x * i) % p = 1
    THEN <<CHOOSE i \in 1..(p - 1) :
             /\ (x * i) % p = 1
             /\ \A j \in 1..(i - 1) : (x * j) % p # 1>>
    ELSE <<>>

\* An inverse that forgets to negate the t coefficient.
inverse_no_conjugate(self) ==
    LET a == self.a  b == self.b
        denominator == (a * a - 3 * b * b) % 5
        inv_denominator == mod_inverse(denominator, Prime)
    IN  IF inv_denominator = <<>> THEN <<>>
        ELSE <<new((a * inv_denominator[1]) % 5, (b * inv_denominator[1]) % 5)>>

inverse(self) ==
    LET a == self.a  b == self.b
        denominator == (a * a - 3 * b * b) % 5
        inv_denominator == mod_inverse(denominator, Prime)
    IN  IF inv_denominator = <<>> THEN <<>>
        ELSE LET new_a == (a * inv_denominator[1]) % 5
                 new_b == 5 - ((b * inv_denominator[1]) % 5)
             IN  <<new(new_a, new_b)>>

div(self, other) ==
    LET inv == inverse(other)
    IN  IF inv = <<>> THEN <<>> ELSE <<mul(self, inv[1])>>

frobenius_wrong_multiplier(self) == new(self.a, (3 * self.b) % 5)

frobenius(self) == new(self.a, (4 * self.b) % 5)

-----------------------------------------------------------------------------
(* main: the field and the curve *)

\* field_elements of main: (a, b) for a in 0..5, b in 0..5, a-major.
field_elements == [i \in 1..(Prime * Prime) |-> new((i - 1) \div Prime, (i - 1) % Prime)]

a_curve == new(1, 0)
b_curve == new(1, 0)

F5x2 == {field_elements[i] : i \in 1..Len(field_elements)}

zero == new(0, 0)
one == new(1, 0)

\* x^3 + a*x + b, as each search and main compute it.
curve_rhs(x, a, b) == add(add(mul(mul(x, x), x), mul(a, x)), b)

-----------------------------------------------------------------------------
(* Point *)

Point_new(x, y) == [x |-> x, y |-> y]

is_at_infinity(self) == self.x = <<>> /\ self.y = <<>>

at_infinity == [x |-> <<>>, y |-> <<>>]

\* A point_add without the test for q = -p.
point_add_no_negation_case(p, q, a) ==
    IF is_at_infinity(p) THEN <<q>>
    ELSE IF is_at_infinity(q) THEN <<p>>
    ELSE IF p.x = <<>> \/ p.y = <<>> \/ q.x = <<>> \/ q.y = <<>> THEN <<>>
    ELSE
      LET x1 == p.x[1]  y1 == p.y[1]  x2 == q.x[1]  y2 == q.y[1]
          lambda == IF x1 = x2 /\ y1 = y2
                    THEN div(add(mul(mul(x1, x1), new(3, 0)), a), mul(y1, new(2, 0)))
                    ELSE div(sub(y2, y1), sub(x2, x1))
      IN  IF lambda = <<>> THEN <<>>
          ELSE LET x3 == sub(sub(mul(lambda[1], lambda[1]), x1), x2)
                   y3 == sub(mul(lambda[1], sub(x1, x3)), y1)
               IN  <<Point_new(<<x3>>, <<y3>>)>>

\* A point_add with the sign slip y3 = lambda*(x3 - x1) - y1.
point_add_sign_slip(p, q, a) ==
    IF is_at_infinity(p) THEN <<q>>
    ELSE IF is_at_infinity(q) THEN <<p>>
    ELSE IF p.x = <<>> \/ p.y = <<>> \/ q.x = <<>> \/ q.y = <<>> THEN <<>>
    ELSE
      LET x1 == p.x[1]  y1 == p.y[1]  x2 == q.x[1]  y2 == q.y[1]
      IN  IF x1 = x2 /\ y1 # y2 THEN <<at_infinity>>
          ELSE
            LET lambda == IF x1 = x2 /\ y1 = y2
                          THEN div(add(mul(mul(x1, x1), new(3, 0)), a), mul(y1, new(2, 0)))
                          ELSE div(sub(y2, y1), sub(x2, x1))
            IN  IF lambda = <<>> THEN <<>>
                ELSE LET x3 == sub(sub(mul(lambda[1], lambda[1]), x1), x2)
                         y3 == sub(mul(lambda[1], sub(x3, x1)), y1)
                     IN  <<Point_new(<<x3>>, <<y3>>)>>

\* <<>>: an unwrap of None or the division panicked.
point_add(p, q, a) ==
    IF is_at_infinity(p) THEN <<q>>
    ELSE IF is_at_infinity(q) THEN <<p>>
    ELSE IF p.x = <<>> \/ p.y = <<>> \/ q.x = <<>> \/ q.y = <<>> THEN <<>>
    ELSE
      LET x1 == p.x[1]  y1 == p.y[1]  x2 == q.x[1]  y2 == q.y[1]
      IN  IF x1 = x2 /\ y1 # y2 THEN <<at_infinity>>
          ELSE
            LET lambda == IF x1 = x2 /\ y1 = y2
                          THEN \* doubling: (3*x1^2 + a) / (2*y1)
                               LET numerator == add(mul(mul(x1, x1), new(3, 0)), a)
                                   denominator == mul(y1, new(2, 0))
                               IN  div(numerator, denominator)
                          ELSE \* addition: (y2 - y1) / (x2 - x1)
                               LET numerator == sub(y2, y1)
                                   denominator == sub(x2, x1)
                               IN  div(numerator, denominator)
            IN  IF lambda = <<>> THEN <<>>
                ELSE LET x3 == sub(sub(mul(lambda[1], lambda[1]), x1), x2)
                         y3 == sub(mul(lambda[1], sub(x1, x3)), y1)
                     IN  <<Point_new(<<x3>>, <<y3>>)>>

\* An iteration that doubles base before it adds it.
point_mul_step_double_first(st, a) ==
    LET b1 == point_add(st.base, st.base, a)
    IN  IF b1 = <<>> THEN <<>>
        ELSE LET r1 == IF st.k % 2 = 1 THEN point_add(st.result, b1[1], a)
                       ELSE <<st.result>>
             IN  IF r1 = <<>> THEN <<>>
                 ELSE <<[k |-> st.k \div 2, result |-> r1[1], base |-> b1[1]]>>

\* One iteration of the while loop of point_mul on its locals st = [k, result, base].
point_mul_step(st, a) ==
    LET r1 == IF st.k % 2 = 1 THEN point_add(st.result, st.base, a)
              ELSE <<st.result>>
    IN  IF r1 = <<>> THEN <<>>
        ELSE LET b1 == point_add(st.base, st.base, a)
             IN  IF b1 = <<>> THEN <<>>
                 ELSE <<[k |-> st.k \div 2, result |-> r1[1], base |-> b1[1]]>>

RECURSIVE point_mul_loop(_, _)

\* The loop goes on from the locals s of the last iteration, unless that panicked.
point_mul_continue(s, a) == IF s = <<>> THEN <<>> ELSE point_mul_loop(s[1], a)

\* while k > 0 { ... } result
point_mul_loop(st, a) ==
    IF st.k > 0 THEN point_mul_continue(point_mul_step(st, a), a) ELSE <<st.result>>

point_mul(m, p, a) == point_mul_loop([k |-> m, result |-> at_infinity, base |-> p], a)

point_frobenius(p) ==
    IF is_at_infinity(p) THEN <<p>>
    ELSE IF p.x = <<>> \/ p.y = <<>> THEN <<>>
    ELSE <<Point_new(<<frobenius(p.x[1])>>, <<frobenius(p.y[1])>>)>>

-----------------------------------------------------------------------------
(* The searches *)

\* A test that keeps every curve point, whatever r*point is.
torsion_push_no_filter(rp, point, vec) ==
    IF rp = <<>> THEN <<>> ELSE <<Append(vec, point)>>

\* if point_mul(r, point, a).is_at_infinity() { torsion_points.push(point) },
\* rp being the value of point_mul(r, point, a).
torsion_push(rp, point, vec) ==
    IF rp = <<>> THEN <<>>
    ELSE IF is_at_infinity(rp[1]) THEN <<Append(vec, point)>> ELSE <<vec>>

\* Body of the inner loop of find_full_r_torsion_points at (x, y).
torsion_visit(m, a, rhs, x, y, vec) ==
    IF mul(y, y) = rhs
    THEN torsion_push(point_mul(m, Point_new(<<x>>, <<y>>), a), Point_new(<<x>>, <<y>>), vec)
    ELSE <<vec>>

\* A test that keeps every curve point, whatever frob and five_p are.
g2_push_no_filter(frob, five_p, p, vec) ==
    IF frob = <<>> \/ five_p = <<>> THEN <<>> ELSE <<Append(vec, p)>>

\* A test that compares only the x coordinates of frob and five_p.
g2_push_x_only(frob, five_p, p, vec) ==
    IF frob = <<>> \/ five_p = <<>> THEN <<>>
    ELSE IF frob[1].x = five_p[1].x THEN <<Append(vec, p)>> ELSE <<vec>>

\* if frob == five_p { g2_points.push(p) }
g2_push(frob, five_p, p, vec) ==
    IF frob = <<>> \/ five_p = <<>> THEN <<>>
    ELSE IF frob[1] = five_p[1] THEN <<Append(vec, p)>> ELSE <<vec>>

\* Body of the inner loop of find_g2_points at (x, y).
g2_visit(a, rhs, x, y, vec) ==
    IF mul(y, y) = rhs
    THEN g2_push(point_frobenius(Point_new(<<x>>, <<y>>)),
                 point_mul(G2Scalar, Point_new(<<x>>, <<y>>), a),
                 Point_new(<<x>>, <<y>>), vec)
    ELSE <<vec>>

\* The points main prints: every (x, y) of the field with y^2 = x^3 + x + 1.
curve_points ==
    {Point_new(<<x>>, <<y>>) : <<x, y>> \in
        {xy \in F5x2 \X F5x2 : mul(xy[2], xy[2]) = curve_rhs(xy[1], a_curve, b_curve)}}

\* The curve's points and the point at infinity.
group_points == curve_points \cup {at_infinity}

\* Every Point with both coordinates present, on the curve or not.
affine_pairs == {Point_new(<<x>>, <<y>>) : <<x, y>> \in F5x2 \X F5x2}

-----------------------------------------------------------------------------
(* Initial states: one per entry point and input *)

\* main, from the call of find_full_r_torsion_points(3, ..) to its end.
Init ==
    /\ mode = "main" /\ pc = "torsion"
    /\ fx = zero /\ fy = zero /\ fres = <<>>
    /\ P = at_infinity /\ Q = at_infinity
    /\ n = 0 /\ r = TorsionR
    /\ k = 0 /\ result = at_infinity /\ base = at_infinity
    /\ out = <<>>
    /\ xi = 1 /\ yi = 1
    /\ torsion_points = <<>> /\ g2_points = <<>>
    /\ panicked = FALSE

\* find_full_r_torsion_points(r, a_curve, b_curve, &field_elements) for any u8 r.
InitTorsion ==
    /\ mode = "torsion" /\ pc = "torsion"
    /\ fx = zero /\ fy = zero /\ fres = <<>>
    /\ P = at_infinity /\ Q = at_infinity
    /\ n = 0 /\ r \in 0..U8Max
    /\ k = 0 /\ result = at_infinity /\ base = at_infinity
    /\ out = <<>>
    /\ xi = 1 /\ yi = 1
    /\ torsion_points = <<>> /\ g2_points = <<>>
    /\ panicked = FALSE

\* One F5x2 operation on any two elements of the field.
InitField ==
    /\ mode = "field" /\ pc = "call"
    /\ fx \in F5x2 /\ fy \in F5x2 /\ fres = <<>>
    /\ P = at_infinity /\ Q = at_infinity
    /\ n = 0 /\ r = 0
    /\ k = 0 /\ result = at_infinity /\ base = at_infinity
    /\ out = <<>>
    /\ xi = 1 /\ yi = 1
    /\ torsion_points = <<>> /\ g2_points = <<>>
    /\ panicked = FALSE

\* point_add(P, Q, a_curve) on any two points of the group.
InitAdd ==
    /\ mode = "add" /\ pc = "call"
    /\ fx = zero /\ fy = zero /\ fres = <<>>
    /\ P \in group_points /\ Q \in group_points
    /\ n = 0 /\ r = 0
    /\ k = 0 /\ result = at_infinity /\ base = at_infinity
    /\ out = <<>>
    /\ xi = 1 /\ yi = 1
    /\ torsion_points = <<>> /\ g2_points = <<>>
    /\ panicked = FALSE

\* point_add(P, -P, a_curve) on any affine pair P = (x, y), -P = (x, 0 - y).
InitNeg ==
    /\ mode = "neg" /\ pc = "call"
    /\ fx = zero /\ fy = zero /\ fres = <<>>
    /\ P \in affine_pairs /\ Q = Point_new(P.x, <<sub(zero, P.y[1])>>)
    /\ n = 0 /\ r = 0
    /\ k = 0 /\ result = at_infinity /\ base = at_infinity
    /\ out = <<>>
    /\ xi = 1 /\ yi = 1
    /\ torsion_points = <<>> /\ g2_points = <<>>
    /\ panicked = FALSE

\* point_mul(n, P, a_curve), entered: any u8 n and any point of the group.
InitMul ==
    /\ mode = "mul" /\ pc = "mul_loop"
    /\ fx = zero /\ fy = zero /\ fres = <<>>
    /\ P \in group_points /\ Q = at_infinity
    /\ n \in 0..U8Max /\ r = 0
    /\ k = n /\ result = at_infinity /\ base = P
    /\ out = <<>>
    /\ xi = 1 /\ yi = 1
    /\ torsion_points = <<>> /\ g2_points = <<>>
    /\ panicked = FALSE

\* Two points of the group, to which the group operations are applied in any order.
InitClosure ==
    /\ mode = "closure" /\ pc = "start"
    /\ fx = zero /\ fy = zero /\ fres = <<>>
    /\ P \in group_points /\ Q \in group_points
    /\ n = 0 /\ r = 0
    /\ k = 0 /\ result = at_infinity /\ base = at_infinity
    /\ out = <<>>
    /\ xi = 1 /\ yi = 1
    /\ torsion_points = <<>> /\ g2_points = <<>>
    /\ panicked = FALSE

-----------------------------------------------------------------------------
(* F5x2 operations *)

FieldOp(name, res) ==
    /\ mode = "field" /\ pc = "call"
    /\ fres' = res
    /\ pc' = name
    /\ panicked' = (res = <<>>)
    /\ UNCHANGED <<mode, fx, fy, P, Q, n, r, k, result, base, out, xi, yi,
                   torsion_points, g2_points>>

Add == FieldOp("add", <<add(fx, fy)>>)
Sub == FieldOp("sub", <<sub(fx, fy)>>)
Mul == FieldOp("mul", <<mul(fx, fy)>>)
Div == FieldOp("div", div(fx, fy))
Inverse == FieldOp("inverse", inverse(fx))
Frobenius == FieldOp("frobenius", <<frobenius(fx)>>)

-----------------------------------------------------------------------------
(* Point operations *)

\* out = point_add(P, Q, a_curve)
PointAdd ==
    /\ mode \in {"add", "neg"} /\ pc = "call"
    /\ out' = point_add(P, Q, a_curve)
    /\ pc' = IF out' = <<>> THEN "panic" ELSE "done"
    /\ panicked' = (out' = <<>>)
    /\ UNCHANGED <<mode, fx, fy, fres, P, Q, n, r, k, result, base, xi, yi,
                   torsion_points, g2_points>>

\* The iteration left the locals s, or panicked (s = <<>>).
MulStore(s) ==
    IF s = <<>>
    THEN /\ pc' = "panic" /\ panicked' = TRUE
         /\ UNCHANGED <<k, result, base>>
    ELSE /\ k' = s[1].k /\ result' = s[1].result /\ base' = s[1].base
         /\ UNCHANGED <<pc, panicked>>

\* One iteration of the loop of point_mul.
MulStep ==
    /\ mode = "mul" /\ pc = "mul_loop" /\ k > 0
    /\ MulStore(point_mul_step([k |-> k, result |-> result, base |-> base], a_curve))
    /\ UNCHANGED <<mode, fx, fy, fres, P, Q, n, r, out, xi, yi,
                   torsion_points, g2_points>>

\* The loop of point_mul is over: it returns result.
MulReturn ==
    /\ mode = "mul" /\ pc = "mul_loop" /\ k = 0
    /\ out' = <<result>>
    /\ pc' = "done"
    /\ UNCHANGED <<mode, fx, fy, fres, P, Q, n, r, k, result, base, xi, yi,
                   torsion_points, g2_points, panicked>>

\* A group operation whose result res replaces P (<<>>: it panicked).
ClosureOp(name, res) ==
    /\ mode = "closure" /\ pc # "panic"
    /\ IF res = <<>>
       THEN pc' = "panic" /\ panicked' = TRUE /\ P' = P
       ELSE pc' = name /\ panicked' = FALSE /\ P' = res[1]
    /\ UNCHANGED <<mode, fx, fy, fres, Q, out, n, r, k, result, base, xi, yi,
                   torsion_points, g2_points>>

ClosureAdd == ClosureOp("add", point_add(P, Q, a_curve))
ClosureMul == \E m \in 0..MaxScalar : ClosureOp("mul", point_mul(m, P, a_curve))
ClosureFrobenius == ClosureOp("frobenius", point_frobenius(P))

\* The other operand takes its turn.
ClosureSwap ==
    /\ mode = "closure" /\ pc # "panic"
    /\ P' = Q /\ Q' = P
    /\ pc' = "swap"
    /\ UNCHANGED <<mode, fx, fy, fres, n, r, k, result, base, out, xi, yi,
                   torsion_points, g2_points, panicked>>

-----------------------------------------------------------------------------
(* The searches: one action per iteration of the inner loop *)

NextX == IF yi = Len(field_elements) THEN xi + 1 ELSE xi
NextY == IF yi = Len(field_elements) THEN 1 ELSE yi + 1

\* The iteration at (xi, yi) left the Vec v, or panicked (v = <<>>).
TorsionStore(v) ==
    IF v = <<>>
    THEN /\ pc' = "panic" /\ panicked' = TRUE
         /\ UNCHANGED <<xi, yi, torsion_points>>
    ELSE /\ torsion_points' = v[1]
         /\ xi' = NextX /\ yi' = NextY
         /\ UNCHANGED <<pc, panicked>>

TorsionVisit ==
    /\ mode \in {"main", "torsion"} /\ pc = "torsion" /\ xi <= Len(field_elements)
    /\ TorsionStore(torsion_visit(r, a_curve,
                                  curve_rhs(field_elements[xi], a_curve, b_curve),
                                  field_elements[xi], field_elements[yi],
                                  torsion_points))
    /\ UNCHANGED <<mode, fx, fy, fres, P, Q, n, r, k, result, base, out, g2_points>>

\* Both loops are over: push the point at infinity and return; main goes on to
\* find_g2_points.
TorsionReturn ==
    /\ mode \in {"main", "torsion"} /\ pc = "torsion" /\ xi > Len(field_elements)
    /\ torsion_points' = Append(torsion_points, at_infinity)
    /\ pc' = IF mode = "main" THEN "g2" ELSE "done"
    /\ xi' = 1 /\ yi' = 1
    /\ UNCHANGED <<mode, fx, fy, fres, P, Q, n, r, k, result, base, out, g2_points,
                   panicked>>

G2Store(v) ==
    IF v = <<>>
    THEN /\ pc' = "panic" /\ panicked' = TRUE
         /\ UNCHANGED <<xi, yi, g2_points>>
    ELSE /\ g2_points' = v[1]
         /\ xi' = NextX /\ yi' = NextY
         /\ UNCHANGED <<pc, panicked>>

G2Visit ==
    /\ mode = "main" /\ pc = "g2" /\ xi <= Len(field_elements)
    /\ G2Store(g2_visit(a_curve, curve_rhs(field_elements[xi], a_curve, b_curve),
                        field_elements[xi], field_elements[yi], g2_points))
    /\ UNCHANGED <<mode, fx, fy, fres, P, Q, n, r, k, result, base, out,
                   torsion_points>>

G2Return ==
    /\ mode = "main" /\ pc = "g2" /\ xi > Len(field_elements)
    /\ g2_points' = Append(g2_points, at_infinity)
    /\ pc' = "done"
    /\ xi' = 1 /\ yi' = 1
    /\ UNCHANGED <<mode, fx, fy, fres, P, Q, n, r, k, result, base, out,
                   torsion_points, panicked>>

-----------------------------------------------------------------------------
(* Specifications *)

Next == TorsionVisit \/ TorsionReturn \/ G2Visit \/ G2Return
Spec == Init /\ [][Next]_vars

NextTorsion == TorsionVisit \/ TorsionReturn
SpecTorsion == InitTorsion /\ [][NextTorsion]_vars

NextField == Add \/ Sub \/ Mul \/ Div \/ Inverse \/ Frobenius
SpecField == InitField /\ [][NextField]_vars

NextNeg == PointAdd
SpecNeg == InitNeg /\ [][NextNeg]_vars

NextMul == MulStep \/ MulReturn
SpecMul == InitMul /\ [][NextMul]_vars

NextClosure == ClosureAdd \/ ClosureMul \/ ClosureFrobenius \/ ClosureSwap
SpecClosure == InitClosure /\ [][NextClosure]_vars

\* Every call of the group law and both searches.
InitGroupLaw == InitAdd \/ InitMul \/ Init
NextGroupLaw == PointAdd \/ MulStep \/ MulReturn \/ Next
SpecGroupLaw == InitGroupLaw /\ [][NextGroupLaw]_vars

-----------------------------------------------------------------------------
(* Properties *)

\* pt is the point at infinity or an affine pair with y^2 = x^3 + a_curve*x + b_curve.
on_curve(pt) ==
    \/ is_at_infinity(pt)
    \/ /\ pt.x # <<>> /\ pt.y # <<>>
       /\ pt.x[1] \in F5x2 /\ pt.y[1] \in F5x2
       /\ mul(pt.y[1], pt.y[1]) = curve_rhs(pt.x[1], a_curve, b_curve)

affine_on_curve(pt) == on_curve(pt) /\ ~is_at_infinity(pt)

\* The positions of vec that hold pt.
positions(vec, pt) == {i \in 1..Len(vec) : vec[i] = pt}

\* C1: for every r, find_full_r_torsion_points(r, ..) returns exactly the affine
\* pairs on the curve with point_mul(r, (x, y), A) the point at infinity, each
\* once, and then the point at infinity, once, as the last entry.
C1_TorsionPointsExact ==
    (mode = "torsion" /\ pc = "done") =>
        /\ Len(torsion_points) >= 1
        /\ positions(torsion_points, at_infinity) = {Len(torsion_points)}
        /\ \A i \in 1..(Len(torsion_points) - 1) :
              /\ affine_on_curve(torsion_points[i])
              /\ point_mul(r, torsion_points[i], a_curve) = <<at_infinity>>
        /\ \A pt \in affine_pairs :
              (on_curve(pt) /\ point_mul(r, pt, a_curve) = <<at_infinity>>)
                  => Cardinality(positions(torsion_points, pt)) = 1

\* The search for r = 3 is over and found the eight affine points of order 3.
C1_Witness ==
    /\ mode = "torsion" /\ pc = "done" /\ r = TorsionR
    /\ Len(torsion_points) = 9

\* C2: the result of find_g2_points holds the point at infinity exactly once, and
\* its other members are exactly the curve points P with
\* point_frobenius(P) = point_mul(5, P, A).
C2_G2PointsExact ==
    (mode = "main" /\ pc = "done") =>
        /\ Cardinality(positions(g2_points, at_infinity)) = 1
        /\ \A i \in 1..Len(g2_points) :
              is_at_infinity(g2_points[i])
              \/ /\ affine_on_curve(g2_points[i])
                 /\ point_frobenius(g2_points[i]) # <<>>
                 /\ point_frobenius(g2_points[i]) = point_mul(5, g2_points[i], a_curve)
        /\ \A pt \in affine_pairs :
              (on_curve(pt) /\ point_frobenius(pt) = point_mul(5, pt, a_curve))
                  => positions(g2_points, pt) # {}

\* main is over and G2 has an affine member.
C2_Witness ==
    /\ mode = "main" /\ pc = "done"
    /\ \E i \in 1..Len(g2_points) : ~is_at_infinity(g2_points[i])

\* C3: point_mul(0, P) is the point at infinity, point_mul(1, P) = P, and
\* point_mul(n, P) = point_add(point_mul(n - 1, P), P) for every n >= 1.
C3_MulIsRepeatedAdd ==
    (mode = "mul" /\ pc = "done") =>
        /\ n = 0 => out = <<at_infinity>>
        /\ n = 1 => out = <<P>>
        /\ n >= 1 =>
              /\ point_mul(n - 1, P, a_curve) # <<>>
              /\ out = point_add(point_mul(n - 1, P, a_curve)[1], P, a_curve)

\* point_mul returned an affine point for a scalar of several set bits.
C3_Witness ==
    /\ mode = "mul" /\ pc = "done" /\ n = 7
    /\ ~is_at_infinity(P) /\ out # <<>> /\ ~is_at_infinity(out[1]) /\ out[1] # P

\* C4: for every non-zero x, inverse(x) returns and mul(x, inverse(x)) = (1, 0).
C4_InverseCorrect ==
    (mode = "field" /\ pc = "inverse" /\ fx # zero) =>
        /\ fres # <<>>
        /\ mul(fx, fres[1]) = one

\* inverse returned for an x with both coefficients non-zero.
C4_Witness ==
    /\ mode = "field" /\ pc = "inverse" /\ fx = new(2, 3) /\ fres # <<>>

C6_OnlyZeroPanics ==
    mode = "field" =>
        /\ pc = "inverse" => ((fres = <<>>) <=> (fx = zero)) /\ (panicked <=> (fx = zero))
        /\ pc = "div" => ((fres = <<>>) <=> (fy = zero)) /\ (panicked <=> (fy = zero))
        /\ pc \in {"add", "sub", "mul", "frobenius"} =>
              /\ ~panicked /\ fres # <<>> /\ fres[1] \in F5x2

\* inverse was called on zero and panicked.
C6_Witness ==
    /\ mode = "field" /\ pc = "inverse" /\ fx = zero /\ fres = <<>> /\ panicked

\* C7: point_add on any two points of the group, point_mul on any u8 scalar and
\* any point of the group, and both searches of main never panic: each is
\* either inside its loop or has returned a value.
C7_NoPanic ==
    /\ ~panicked /\ pc # "panic"
    /\ (mode \in {"add", "mul"} /\ pc = "done") => out # <<>>
    /\ mode = "add" => pc \in {"call", "done"}
    /\ mode = "mul" => pc \in {"mul_loop", "done"} /\ k \in 0..n
    /\ mode = "main" =>
          /\ pc \in {"torsion", "g2", "done"}
          /\ xi \in 1..(Len(field_elements) + 1) /\ yi \in 1..Len(field_elements)

\* point_mul(255, P) returned for an affine P: eight additions and eight
\* doublings, the last doubling after the last bit.
C7_Witness ==
    /\ mode = "mul" /\ pc = "done" /\ n = U8Max /\ k = 0
    /\ ~is_at_infinity(P) /\ ~is_at_infinity(base) /\ ~panicked

\* C8: whatever point_add, point_mul and point_frobenius calls are made, in any
\* order, from points of the group, every point obtained is the point at
\* infinity or on the curve.
C8_StaysOnCurve == on_curve(P) /\ on_curve(Q)

\* An addition of two different affine points returned an affine point.
C8_Witness ==
    /\ mode = "closure" /\ pc = "add"
    /\ ~is_at_infinity(P) /\ ~is_at_infinity(Q) /\ P.x # Q.x

\* C9: frobenius(x) is the fifth power of x under mul, and frobenius twice is
\* the identity.
C9_FrobeniusIsFifthPower ==
    (mode = "field" /\ pc = "frobenius") =>
        /\ fres = <<mul(mul(mul(mul(fx, fx), fx), fx), fx)>>
        /\ frobenius(fres[1]) = fx

\* frobenius moved an element outside the prime field.
C9_Witness ==
    /\ mode = "field" /\ pc = "frobenius" /\ fx.b # 0 /\ fres # <<fx>>

\* C10: every point returned by find_g2_points is returned by
\* find_full_r_torsion_points(3, ..) too.
C10_G2InTorsion ==
    (mode = "main" /\ pc = "done") =>
        \A i \in 1..Len(g2_points) : positions(torsion_points, g2_points[i]) # {}

\* main is over and an affine point of G2 is among the 3-torsion points.
C10_Witness ==
    /\ mode = "main" /\ pc = "done"
    /\ \E i \in 1..Len(g2_points) :
          /\ ~is_at_infinity(g2_points[i])
          /\ positions(torsion_points, g2_points[i]) # {}

====
